---- MODULE Spec2Model ----
(***************************************************************************)
(* Model of src/app.py: the Streamlit script that reads a Webex attendance *)
(* CSV and calls processar_assistencia on a copy of it.                    *)
(*                                                                         *)
(* Times are whole minutes since midnight of the meeting day (09:00 is     *)
(* 540).  A cell of the CSV is a tagged record: NaN (empty cell), Txt(t)   *)
(* (text that pd.to_datetime reads as minute t), Lixo (text that           *)
(* pd.to_datetime rejects), Str(s), Num(n); pd.to_datetime turns Txt(t)    *)
(* into the Timestamp Ts(t).  Only the six columns whose cells the         *)
(* function reads to build the percentages carry data (the name columns    *)
(* and the record's 'Nome' are left out); the header holds all thirteen    *)
(* labels.  The meeting start and end cells of the files below are never   *)
(* empty, and durations are whole minutes.                                 *)
(***************************************************************************)
EXTENDS Integers, Sequences, FiniteSets, TLC

VARIABLES uploaded_file, df_input, df, df_reporte, resumen_final, st

vars == <<uploaded_file, df_input, df, df_reporte, resumen_final, st>>

-----------------------------------------------------------------------------
(* Values *)

None == [k |-> "None"]
NaN == [k |-> "nan"]
NaT == [k |-> "nat"]
Lixo == [k |-> "bad"]
Txt(t) == [k |-> "txt", v |-> t]
Ts(t) == [k |-> "ts", v |-> t]
Str(s) == [k |-> "str", v |-> s]
Num(n) == [k |-> "num", v |-> n]

-----------------------------------------------------------------------------
(* Bounds of the enumerated inputs *)

MaxLinhas == 2

-----------------------------------------------------------------------------
(* Column labels *)

ColEmail == "E-mail do convidado"
ColEntrada == "Hora da entrada"
ColSaida == "Hora da saída"
ColDuracao == "Duração da presença"
ColInicio == "Data de início da reunião"
ColTermino == "Data de término da reunião"

colunas_esperadas ==
  { "Nome da reunião", ColInicio, ColTermino, "Nome de exibição", "Nome",
    "Sobrenome", "Função", ColEmail, ColEntrada, ColSaida, ColDuracao,
    "Tipo de conexão", "Nome da sessão" }

\* The labels the headers of the model are made of: the expected ones, the
\* e-mail label in lower case and the duration label padded with spaces.
Rotulos ==
  colunas_esperadas \cup {"e-mail do convidado", " Duração da presença "}

\* str.lower() on those labels and on what strip() and lower() make of them.
LowerDe ==
  [c \in Rotulos \cup {"duração da presença"} |->
     CASE c = "Nome da reunião" -> "nome da reunião"
       [] c = ColInicio -> "data de início da reunião"
       [] c = ColTermino -> "data de término da reunião"
       [] c = "Nome de exibição" -> "nome de exibição"
       [] c = "Nome" -> "nome"
       [] c = "Sobrenome" -> "sobrenome"
       [] c = "Função" -> "função"
       [] c = ColEmail -> "e-mail do convidado"
       [] c = ColEntrada -> "hora da entrada"
       [] c = ColSaida -> "hora da saída"
       [] c = ColDuracao -> "duração da presença"
       [] c = " Duração da presença " -> " duração da presença "
       [] c = "Tipo de conexão" -> "tipo de conexão"
       [] c = "Nome da sessão" -> "nome da sessão"
       [] OTHER -> c]
Lower(c) == LowerDe[c]

\* str.strip() on the same labels.
StripDe ==
  [c \in Rotulos |-> IF c = " Duração da presença " THEN ColDuracao ELSE c]
Strip(c) == StripDe[c]

\* Lines 84-89: the expected labels that no label of the table matches once
\* both are stripped and lower-cased.
colunas_faltantes(columns) ==
  LET colunas_df == {Lower(Strip(col)) : col \in columns}
  IN {c \in colunas_esperadas : Lower(c) \notin colunas_df}

\* Line 97: colunas_esperadas.get(c.lower(), c).  The keys of the dict are the
\* capitalised labels, so the lookup succeeds only for a label whose lower
\* case is itself one of those keys.
NormalizarColuna(c) == IF Lower(c) \in colunas_esperadas THEN Lower(c) ELSE c

NormalizarColunas(columns) == {NormalizarColuna(c) : c \in columns}

-----------------------------------------------------------------------------
(* Arithmetic helpers *)

RECURSIVE SomaDuracoes(_)
\* Series.sum() of 'Duração da presença': NaN cells are skipped.
SomaDuracoes(linhas) ==
  IF linhas = <<>> THEN 0
  ELSE (IF Head(linhas).dur = NaN THEN 0 ELSE Head(linhas).dur.v)
       + SomaDuracoes(Tail(linhas))

Minimo(S) == CHOOSE x \in S : \A y \in S : x <= y
Maximo(S) == CHOOSE x \in S : \A y \in S : x >= y

\* round(num / den * 100, 2), in hundredths of a percent.  A tie needs a
\* denominator that is a multiple of 32; none of the durations below is one.
Round2(num, den) ==
  LET q == (num * 10000) \div den
      r == (num * 10000) % den
  IN IF 2 * r < den THEN q
     ELSE IF 2 * r > den THEN q + 1
     ELSE IF q % 2 = 0 THEN q ELSE q + 1

\* Timestamp.strftime('%Y-%m-%d %H:%M:%S') of a minute of the meeting day.
Strftime(t) == [hora |-> t \div 60, minuto |-> t % 60, segundo |-> 0]

-----------------------------------------------------------------------------
(* processar_assistencia *)

\* Program constants: the slot length in minutes and the 80 % threshold.
MinutosPorTramo == 60
LimiarPresenca == 80

\* A value returned by the function, or the exception that left it.
Retorno(d, reporte, resumo_, msgs) ==
  [tipo |-> "return", df |-> d, df_final |-> reporte, resumo |-> resumo_,
   msgs |-> msgs]
Excecao(d, nome) ==
  [tipo |-> "raise", df |-> d, df_final |-> None, resumo |-> None,
   msgs |-> <<>>, erro |-> nome]

Resumo(total, ignorados, presentes, ausentes) ==
  [total_registros_processados |-> total, registros_ignorados |-> ignorados,
   presentes |-> presentes, ausentes |-> ausentes]

\* Line 102: df.dropna(subset=[e-mail, entrada, saída]).
SubsetDropna == {ColEmail, ColEntrada, ColSaida}
LinhaCompleta(l) == l.email # NaN /\ l.entrada # NaN /\ l.saida # NaN
dropna(linhas) == SelectSeq(linhas, LinhaCompleta)

\* Faulty variant: registros_validos_antes taken after the dropna.
registros_ignorados_tardio(antes, depois) == Len(depois) - Len(depois)

\* Lines 99-103: rows before the dropna minus rows after it.
registros_ignorados(antes, depois) == Len(antes) - Len(depois)

\* pd.to_datetime of one cell.
Convertivel(c) == c # Lixo
to_datetime(c) == IF c = NaN THEN NaT ELSE IF c.k = "txt" THEN Ts(c.v) ELSE c

\* df[col] = pd.to_datetime(df[col]) for one column: a KeyError when the
\* label is not in the table, a parse error when a cell is not a date, and
\* otherwise the column replaced by Timestamps.
ConverterColuna(d, col, campo) ==
  IF col \notin d.columns THEN [ok |-> FALSE, df |-> d]
  ELSE IF \E i \in 1..Len(d.rows) : ~Convertivel(d.rows[i][campo])
    THEN [ok |-> FALSE, df |-> d]
  ELSE [ok |-> TRUE,
        df |-> [d EXCEPT !.rows =
                  [i \in 1..Len(d.rows) |->
                     [d.rows[i] EXCEPT ![campo] = to_datetime(@)]]]]

\* Lines 110-118: the four conversions, in order; the first that fails ends
\* the block and leaves the columns converted so far.
ConverterDatas(d) ==
  LET c1 == ConverterColuna(d, ColEntrada, "entrada")
      c2 == ConverterColuna(c1.df, ColSaida, "saida")
      c3 == ConverterColuna(c2.df, ColInicio, "inicio")
      c4 == ConverterColuna(c3.df, ColTermino, "termino")
  IN IF ~c1.ok THEN c1 ELSE IF ~c2.ok THEN c2 ELSE IF ~c3.ok THEN c3 ELSE c4

\* Line 122: meeting end minus meeting start of the first row, in minutes.
duracao_total_aula_min(linhas) == linhas[1].termino.v - linhas[1].inicio.v

\* Lines 145-147.
total_tramos(duracao) ==
  (duracao \div MinutosPorTramo)
  + (IF duracao % MinutosPorTramo > 0 THEN 1 ELSE 0)

\* Lines 152-153: slot i starts 60*i minutes after the meeting start and ends
\* 60 minutes later.
inicio_tramo(hora_inicio_aula, i) == hora_inicio_aula + i * MinutosPorTramo
fim_tramo(hora_inicio_aula, i) ==
  inicio_tramo(hora_inicio_aula, i) + MinutosPorTramo

\* Lines 155-159.
participou_do_tramo(grupo, hora_inicio_aula, i) ==
  \E j \in 1..Len(grupo) :
    /\ grupo[j].entrada.v < fim_tramo(hora_inicio_aula, i)
    /\ grupo[j].saida.v > inicio_tramo(hora_inicio_aula, i)

\* Lines 144-162.
tramos_participados(grupo, hora_inicio_aula, total) ==
  Cardinality({i \in 0..(total - 1) :
                 participou_do_tramo(grupo, hora_inicio_aula, i)})

\* Faulty variant: the duration of the group's first row only.
tempo_primeira_linha(grupo) == SomaDuracoes(<<grupo[1]>>)

\* Faulty variant: the other accounting policy, consolidated exit minus
\* consolidated entry.
tempo_por_intervalo(grupo) ==
  Maximo({grupo[j].saida.v : j \in 1..Len(grupo)})
  - Minimo({grupo[j].entrada.v : j \in 1..Len(grupo)})

\* Line 140: the sum of the group's reported durations.
tempo_total_min(grupo) == SomaDuracoes(grupo)

\* Faulty variant: one of the two percentages is enough.
status_ou(tempo, duracao, tramos, total) ==
  IF tempo * 100 >= LimiarPresenca * duracao
     \/ (total > 0 /\ tramos * 100 >= LimiarPresenca * total)
  THEN "Presente" ELSE "Ausente"

\* Faulty variant: a third status when only the minutes reach 80 %.
status_tres(tempo, duracao, tramos, total) ==
  IF tempo * 100 >= LimiarPresenca * duracao
  THEN (IF total > 0 /\ tramos * 100 >= LimiarPresenca * total
        THEN "Presente" ELSE "Parcial")
  ELSE "Ausente"

\* Lines 141, 164, 165: both percentages must reach 80.
status(tempo, duracao, tramos, total) ==
  IF tempo * 100 >= LimiarPresenca * duracao
     /\ total > 0 /\ tramos * 100 >= LimiarPresenca * total
  THEN "Presente" ELSE "Ausente"

\* Lines 137-182: the record of one student.
Consolidar(email, grupo, duracao, hora_inicio_aula) ==
  LET tempo == tempo_total_min(grupo)
      total == total_tramos(duracao)
      tramos == tramos_participados(grupo, hora_inicio_aula, total)
  IN [email |-> email,
      entrada |-> Strftime(Minimo({grupo[j].entrada.v : j \in 1..Len(grupo)})),
      saida |-> Strftime(Maximo({grupo[j].saida.v : j \in 1..Len(grupo)})),
      tempo |-> tempo,
      porcentagem_tempo |-> Round2(tempo, duracao),
      tramos |-> tramos,
      porcentagem_tramos |-> IF total > 0 THEN Round2(tramos, total) ELSE 0,
      status |-> status(tempo, duracao, tramos, total)]

\* The e-mails of the model in the order df.groupby sorts its keys.
EmailsOrdenados == <<"a@x.com", "b@x.com">>

\* Line 132: one group per distinct e-mail, in key order.
ChavePresente(linhas, e) == \E i \in 1..Len(linhas) : linhas[i].email = Str(e)

\* Faulty variant: one key per row, without grouping.
chaves_por_linha(linhas) == [i \in 1..Len(linhas) |-> linhas[i].email.v]

chaves(linhas) ==
  SelectSeq(EmailsOrdenados, LAMBDA e : ChavePresente(linhas, e))

grupo_de(linhas, e) == SelectSeq(linhas, LAMBDA l : l.email = Str(e))

RECURSIVE Contar(_, _)
\* Lines 186-187: len(df_final[df_final['Status'] == s]).
Contar(registros, s) ==
  IF registros = <<>> THEN 0
  ELSE (IF Head(registros).status = s THEN 1 ELSE 0) + Contar(Tail(registros), s)

processar_assistencia(d0) ==
  LET total == Len(d0.rows)
  IN
  IF colunas_faltantes(d0.columns) # {}
  THEN Retorno(d0, None, None, <<"error_colunas", "info_colunas">>)
  ELSE
  LET d1 == [d0 EXCEPT !.columns = NormalizarColunas(d0.columns)]
  IN
  IF ~(SubsetDropna \subseteq d1.columns) THEN Excecao(d1, "KeyError")
  ELSE
  LET d2 == [d1 EXCEPT !.rows = dropna(d1.rows)]
      ignorados == registros_ignorados(d1.rows, d2.rows)
  IN
  IF d2.rows = <<>>
  THEN Retorno(d2, None, Resumo(total, ignorados, 0, 0), <<>>)
  ELSE
  LET conv == ConverterDatas(d2)
  IN
  IF ~conv.ok THEN Retorno(conv.df, None, None, <<"error_data">>)
  ELSE
  LET d3 == conv.df
      duracao == duracao_total_aula_min(d3.rows)
  IN
  IF duracao <= 0 THEN Retorno(d3, None, None, <<"error_duracao">>)
  ELSE IF ColDuracao \notin d3.columns THEN Excecao(d3, "KeyError")
  ELSE
  LET ks == chaves(d3.rows)
      resultados ==
        [i \in 1..Len(ks) |->
           Consolidar(ks[i], grupo_de(d3.rows, ks[i]), duracao,
                      d3.rows[1].inicio.v)]
  IN Retorno(d3, [k |-> "df", rows |-> resultados],
             Resumo(total, ignorados, Contar(resultados, "Presente"),
                    Contar(resultados, "Ausente")),
             <<>>)

-----------------------------------------------------------------------------
(* The uploaded files *)

Linha(e, en, sa, d, i, t) ==
  [email |-> e, entrada |-> en, saida |-> sa, dur |-> d, inicio |-> i,
   termino |-> t]

Intervalos == {<<540, 570>>, <<585, 600>>, <<630, 645>>}
Duracoes == {15, 30, 60}
Reunioes == {<<540, 600>>, <<540, 615>>}

\* Well-formed rows of student a: every interval, duration and meeting.
LinhasA ==
  {Linha(Str("a@x.com"), Txt(iv[1]), Txt(iv[2]), Num(d), Txt(r[1]), Txt(r[2])) :
     iv \in Intervalos, d \in Duracoes, r \in Reunioes}

\* A well-formed row of student b.
LinhasB ==
  {Linha(Str("b@x.com"), Txt(540), Txt(570), Num(60), Txt(540), Txt(600))}

\* Rows with one defect each: an empty cell, text that is no date, a meeting
\* that ends when it starts.
LinhaBase ==
  Linha(Str("a@x.com"), Txt(540), Txt(570), Num(30), Txt(540), Txt(600))
LinhasDefeito ==
  { [LinhaBase EXCEPT !.email = NaN],
    [LinhaBase EXCEPT !.entrada = NaN],
    [LinhaBase EXCEPT !.saida = NaN],
    [LinhaBase EXCEPT !.dur = NaN],
    [LinhaBase EXCEPT !.entrada = Lixo],
    [LinhaBase EXCEPT !.inicio = Lixo],
    [LinhaBase EXCEPT !.termino = Txt(540)] }

Linhas == LinhasA \cup LinhasB \cup LinhasDefeito

\* Headers: the thirteen labels as expected, without the e-mail column, with
\* the e-mail label in lower case, with the duration label padded.
Cabecalhos ==
  { colunas_esperadas,
    colunas_esperadas \ {ColEmail},
    (colunas_esperadas \ {ColEmail}) \cup {"e-mail do convidado"},
    (colunas_esperadas \ {ColDuracao}) \cup {" Duração da presença "} }

CsvMalformado == [k |-> "malformed"]

\* A well-formed CSV file: a header and up to MaxLinhas rows.
Csv(h, ls) == [header |-> h, linhas |-> ls]

\* Lines 212-219: pd.read_csv of a well-formed file.
read_csv(f) == [columns |-> f.header, rows |-> f.linhas]

-----------------------------------------------------------------------------
(* The script *)

\* Faulty variant: processar_assistencia(df_input), without the copy.
df_input_sem_copia(antes, argumento_depois) == argumento_depois

\* Line 226: processar_assistencia(df_input.copy()).  The function works on
\* a copy, so df_input after the call is df_input before it.
df_input_depois(antes, argumento_depois) == antes

Init ==
  /\ uploaded_file = None
  /\ df_input = None
  /\ df = None
  /\ df_reporte = None
  /\ resumen_final = None
  /\ st = <<>>

\* Lines 228-251: the function returned a table; the report is shown.
Reporte(r) ==
  /\ r.tipo = "return"
  /\ r.df_final # None
  /\ df_reporte' = r.df_final
  /\ resumen_final' = r.resumo
  /\ st' = <<"success", "info">> \o r.msgs
             \o <<"metrics", "dataframe", "download_button">>

\* Lines 252-253: the function returned no table; the warning is shown.
Warning(r) ==
  /\ r.tipo = "return"
  /\ r.df_final = None
  /\ df_reporte' = None
  /\ resumen_final' = r.resumo
  /\ st' = <<"success", "info">> \o r.msgs \o <<"warning">>

\* Lines 255-257: the function raised; df_reporte and resumen_final are never
\* bound.
ErroInesperado(r) ==
  /\ r.tipo = "raise"
  /\ df_reporte' = None
  /\ resumen_final' = None
  /\ st' = <<"success", "info", "error_inesperado", "info_inesperado">>

\* Lines 209-257: a well-formed file is uploaded and the script runs: the file
\* is read, the function is called on a copy of the table and one of the
\* three outcomes is shown.
Run ==
  /\ uploaded_file = None
  /\ \E h \in Cabecalhos, n \in 0..MaxLinhas : \E ls \in [1..n -> Linhas] :
       LET f == Csv(h, ls)
           r == processar_assistencia(read_csv(f))
       IN /\ uploaded_file' = f
          /\ df_input' = df_input_depois(read_csv(f), r.df)
          /\ df' = r.df
          /\ \/ Reporte(r)
             \/ Warning(r)
             \/ ErroInesperado(r)

\* Lines 217-221: pd.read_csv raises ParserError; nothing is processed.
RunParserError ==
  /\ uploaded_file = None
  /\ uploaded_file' = CsvMalformado
  /\ st' = <<"error_parser">>
  /\ UNCHANGED <<df_input, df, df_reporte, resumen_final>>

\* Lines 207-209: the file is removed; the script runs again and shows
\* nothing.
Limpar ==
  /\ uploaded_file # None
  /\ uploaded_file' = None
  /\ df_input' = None
  /\ df' = None
  /\ df_reporte' = None
  /\ resumen_final' = None
  /\ st' = <<>>

Next == Run \/ RunParserError \/ Limpar

Spec == Init /\ [][Next]_vars

-----------------------------------------------------------------------------
(* What the claims are stated over: the uploaded file as it was read *)

EhCsv == uploaded_file # None /\ uploaded_file # CsvMalformado

\* The rows that have e-mail, entry time and exit time.
Retidas(ls) ==
  {i \in 1..Len(ls) :
     ls[i].email # NaN /\ ls[i].entrada # NaN /\ ls[i].saida # NaN}
RetidasDe(ls, e) == {i \in Retidas(ls) : ls[i].email = Str(e)}
PrimeiraRetida(ls) == CHOOSE i \in Retidas(ls) : \A j \in Retidas(ls) : i <= j

RECURSIVE SomaSobre(_, _)
SomaSobre(S, ls) ==
  IF S = {} THEN 0
  ELSE LET i == CHOOSE x \in S : TRUE
       IN (IF ls[i].dur = NaN THEN 0 ELSE ls[i].dur.v)
          + SomaSobre(S \ {i}, ls)

\* Session minutes and number of slots, from the first retained row.
DuracaoSessao(ls) ==
  ls[PrimeiraRetida(ls)].termino.v - ls[PrimeiraRetida(ls)].inicio.v
InicioSessao(ls) == ls[PrimeiraRetida(ls)].inicio.v
TramosSessao(ls) == (DuracaoSessao(ls) + 59) \div 60

DataIlegivel(ls) ==
  \E i \in Retidas(ls) :
    Lixo \in {ls[i].entrada, ls[i].saida, ls[i].inicio, ls[i].termino}

-----------------------------------------------------------------------------
(* C1 *)

\* C1: when a result table is returned it has exactly one record per
\* distinct e-mail of the retained rows: no e-mail twice, every retained
\* e-mail present, no e-mail that occurs only on dropped rows.
C1_UmRegistroPorEmail ==
  df_reporte # None =>
    LET regs == df_reporte.rows
        ls == uploaded_file.linhas
    IN /\ \A i, j \in 1..Len(regs) : i # j => regs[i].email # regs[j].email
       /\ {regs[i].email : i \in 1..Len(regs)}
            = {ls[i].email.v : i \in Retidas(ls)}

\* A table was returned although a row with an e-mail was dropped, and that
\* e-mail is on no retained row.
C1_Witness ==
  /\ df_reporte # None
  /\ \E i \in 1..Len(uploaded_file.linhas) :
       LET ls == uploaded_file.linhas
       IN /\ i \notin Retidas(ls)
          /\ ls[i].email # NaN
          /\ \A j \in Retidas(ls) : ls[j].email # ls[i].email

-----------------------------------------------------------------------------
(* C2 *)

\* C2: whenever a summary is returned, total_registros_processados is the
\* number of input rows, the rows the function kept are those that have
\* e-mail, entry and exit, and registros_ignorados is the number of the
\* others, so ignored plus retained equals the total.
C2_IgnoradosMaisRetidos ==
  resumen_final # None =>
    LET ls == uploaded_file.linhas
    IN /\ resumen_final.total_registros_processados = Len(ls)
       /\ Len(df.rows) = Cardinality(Retidas(ls))
       /\ resumen_final.registros_ignorados
            = Cardinality((1..Len(ls)) \ Retidas(ls))
       /\ resumen_final.registros_ignorados + Cardinality(Retidas(ls))
            = resumen_final.total_registros_processados

\* A summary that comes with a table and counts a dropped row.
C2_Witness ==
  /\ resumen_final # None
  /\ df_reporte # None
  /\ resumen_final.registros_ignorados = 1

-----------------------------------------------------------------------------
(* C3 *)

\* C3: when a table is returned with its summary, presentes plus ausentes is
\* the number of records, every record being 'Presente' or 'Ausente'.
C3_PresentesMaisAusentes ==
  (df_reporte # None /\ resumen_final # None) =>
    /\ resumen_final.presentes + resumen_final.ausentes = Len(df_reporte.rows)
    /\ resumen_final.presentes
         = Cardinality({i \in 1..Len(df_reporte.rows) :
                          df_reporte.rows[i].status = "Presente"})
    /\ \A i \in 1..Len(df_reporte.rows) :
         df_reporte.rows[i].status \in {"Presente", "Ausente"}

\* A table with a present and an absent student.
C3_Witness ==
  /\ df_reporte # None
  /\ resumen_final # None
  /\ resumen_final.presentes = 1
  /\ resumen_final.ausentes = 1

-----------------------------------------------------------------------------
(* C4 *)

\* C4: if a required column is missing, or a date/time value of a retained
\* row cannot be parsed, or the duration of the first retained row is <= 0,
\* the function returns (None, None).
C4_FalhaRetornaNoneNone ==
  (EhCsv /\ LET ls == uploaded_file.linhas
            IN \/ colunas_faltantes(uploaded_file.header) # {}
               \/ DataIlegivel(ls)
               \/ (Retidas(ls) # {} /\ ~DataIlegivel(ls)
                   /\ DuracaoSessao(ls) <= 0))
  => (st[Len(st)] = "warning" /\ df_reporte = None /\ resumen_final = None)

-----------------------------------------------------------------------------
(* C5 *)

\* C5: when every required column is there and no row is retained, the
\* result is an empty table with an all-zero summary, and it is not shown as
\* a failure.
C5_VazioNaoEhErro ==
  (EhCsv /\ colunas_faltantes(uploaded_file.header) = {}
         /\ Retidas(uploaded_file.linhas) = {})
  => /\ df_reporte = [k |-> "df", rows |-> <<>>]
     /\ resumen_final = Resumo(0, 0, 0, 0)
     /\ st[Len(st)] # "warning"

-----------------------------------------------------------------------------
(* C6 *)

-----------------------------------------------------------------------------
(* C7 *)

CelulasDuracao == {Num(d) : d \in Duracoes} \cup {NaN}

\* The file f with the duration cells of the rows in G replaced by ds.
ComDuracoes(f, G, ds) ==
  Csv(f.header,
      [i \in 1..Len(f.linhas) |->
         IF i \in G THEN [f.linhas[i] EXCEPT !.dur = ds[i]] ELSE f.linhas[i]])

RECURSIVE SomaCelulas(_, _)
SomaCelulas(S, ds) ==
  IF S = {} THEN 0
  ELSE LET i == CHOOSE x \in S : TRUE
       IN (IF ds[i] = NaN THEN 0 ELSE ds[i].v) + SomaCelulas(S \ {i}, ds)

StatusDe(r, e) ==
  LET k == CHOOSE i \in 1..Len(r.df_final.rows) : r.df_final.rows[i].email = e
  IN r.df_final.rows[k].status

\* C7: if a student is 'Presente', the student is 'Presente' for every input
\* that differs only in the duration cells of that student's rows and whose
\* sum of those is at least as large.
C7_StatusMonotono ==
  df_reporte # None =>
    \A k \in 1..Len(df_reporte.rows) :
      df_reporte.rows[k].status = "Presente" =>
        LET e == df_reporte.rows[k].email
            f == uploaded_file
            G == RetidasDe(f.linhas, e)
            soma == SomaSobre(G, f.linhas)
        IN \A ds \in [G -> CelulasDuracao] :
             SomaCelulas(G, ds) >= soma
             => StatusDe(processar_assistencia(read_csv(ComDuracoes(f, G, ds))),
                         e) = "Presente"

\* A present student whose durations can still grow.
C7_Witness ==
  /\ df_reporte # None
  /\ \E k \in 1..Len(df_reporte.rows) :
       /\ df_reporte.rows[k].status = "Presente"
       /\ LET e == df_reporte.rows[k].email
              f == uploaded_file
              G == RetidasDe(f.linhas, e)
          IN \E ds \in [G -> CelulasDuracao] :
               SomaCelulas(G, ds) > SomaSobre(G, f.linhas)

-----------------------------------------------------------------------------
(* C8 *)

\* C8 as stated: after the call, the table the function was given has the
\* rows, labels and cells it had before.
C8_ArgumentoIntacto == EhCsv => df = read_csv(uploaded_file)

\* C8 as amended: after any call the caller's table df_input has the rows,
\* labels and cells that were read from the file; the function worked on a
\* copy of it.
C8_DfInputIntacto == EhCsv => df_input = read_csv(uploaded_file)

\* The function dropped a row of its argument, and df_input still has it.
C8_Witness ==
  /\ EhCsv
  /\ Len(df.rows) < Len(df_input.rows)
  /\ df_input = read_csv(uploaded_file)

-----------------------------------------------------------------------------
(* C9 *)

ExemploC9 ==
  Csv(colunas_esperadas,
      << Linha(Str("a@x.com"), Txt(540), Txt(570), Num(30), Txt(540), Txt(600)),
         Linha(Str("a@x.com"), Txt(585), Txt(600), Num(15), Txt(540), Txt(600)) >>)

\* C9: each record's entry is the earliest connection start, its exit the
\* latest connection end and its minutes the sum of the reported durations
\* of the student's retained rows; the two rows 09:00-09:30 (30) and
\* 09:45-10:00 (15) of a 60 minute session give 09:00, 10:00, 45 minutes,
\* 75 %, 'Ausente'.
C9_Consolidacao ==
  df_reporte # None =>
    LET ls == uploaded_file.linhas
    IN /\ \A k \in 1..Len(df_reporte.rows) :
            LET reg == df_reporte.rows[k]
                G == RetidasDe(ls, reg.email)
                primeira == CHOOSE i \in G : \A j \in G :
                              ls[i].entrada.v <= ls[j].entrada.v
                ultima == CHOOSE i \in G : \A j \in G :
                            ls[i].saida.v >= ls[j].saida.v
            IN /\ reg.entrada = [hora |-> ls[primeira].entrada.v \div 60,
                                 minuto |-> ls[primeira].entrada.v % 60,
                                 segundo |-> 0]
               /\ reg.saida = [hora |-> ls[ultima].saida.v \div 60,
                               minuto |-> ls[ultima].saida.v % 60,
                               segundo |-> 0]
               /\ reg.tempo = SomaSobre(G, ls)
       /\ uploaded_file = ExemploC9 =>
            df_reporte.rows =
              << [email |-> "a@x.com",
                  entrada |-> [hora |-> 9, minuto |-> 0, segundo |-> 0],
                  saida |-> [hora |-> 10, minuto |-> 0, segundo |-> 0],
                  tempo |-> 45, porcentagem_tempo |-> 7500,
                  tramos |-> 1, porcentagem_tramos |-> 10000,
                  status |-> "Ausente"] >>

\* The report of the two-row example.
C9_Witness == uploaded_file = ExemploC9 /\ df_reporte # None

-----------------------------------------------------------------------------
(* C10 *)

\* C10: the covered slots of a record are the slots of the partition of
\* [start, start + duration) into 60 minute slots, the last one ending at
\* start + duration, that some connection of the student overlaps; they
\* never exceed the number of slots.
C10_TramosDaParticao ==
  df_reporte # None =>
    LET ls == uploaded_file.linhas
        s == InicioSessao(ls)
        fim == InicioSessao(ls) + DuracaoSessao(ls)
    IN \A k \in 1..Len(df_reporte.rows) :
         LET reg == df_reporte.rows[k]
             cobertos ==
               {i \in 0..(TramosSessao(ls) - 1) :
                  \E j \in RetidasDe(ls, reg.email) :
                    /\ ls[j].entrada.v
                         < (IF s + 60 * (i + 1) < fim THEN s + 60 * (i + 1)
                            ELSE fim)
                    /\ ls[j].saida.v > s + 60 * i}
         IN /\ reg.tramos = Cardinality(cobertos)
            /\ reg.tramos <= TramosSessao(ls)

=============================================================================
